---- MODULE Spec2Model ----
(***************************************************************************)
(* Smart_Calendar: slot recommendation (features, hybrid scoring), session *)
(* logging and label back-fill, model training, reminder sweep.            *)
(*                                                                         *)
(* Time is counted in whole hours since a Monday 00:00, so that            *)
(*   hour(t) = t % 24, dayofweek(t) = (t \div 24) % 7, date(t) = t \div 24 *)
(* Scores are kept as integers scaled by 10000 (each of the three terms    *)
(* scaled by 1000 and weighted 6/3/1).                                     *)
(***************************************************************************)
EXTENDS Integers, Sequences, FiniteSets, TLC

VARIABLES
    clock,          \* the store's NOW() / datetime.utcnow(), in hours
    avail_slots,    \* avail_slots.is_booked, by slot id
    bookings,       \* bookings table, in insertion (id) order
    logs,           \* recommendation_logs table, in insertion order
    nextSession,    \* number of session ids minted so far, plus one
    resp,           \* outcome of the last /recommend_slots request
    conf,           \* outcome of the last /confirm_appointment request, and the slot_id
                    \* and session_id it had read from the request by then
    artifact,       \* content of the file at MODEL_PATH
    retrain,        \* outcome of the last retrain_job run
    settings,       \* reminder_settings, by secondary user
    sweep,          \* position of the running reminder_job
    attempts,       \* notification posts made by the current sweep, by secondary user
    notif,          \* payload and delivery result of the last notification post
    trainer,        \* position of a running train_ranking_model call
    scoring,        \* outcome of the last recommend_top_k call of the scorer harness
    setresp,        \* outcome of the last /set_reminder request
    txn,            \* the open transaction of a /confirm_appointment request in progress
    built           \* arguments and result of the last build_candidate_features call

vars == <<clock, avail_slots, bookings, logs, nextSession, resp, conf, artifact, retrain,
          settings, sweep, attempts, notif, trainer, scoring, setresp, txn,
          built>>

(***************************************************************************)
(* Bounds of the model.                                                    *)
(***************************************************************************)
MaxSessions == 2
MaxBookings == 2
MaxDays == 2
MaxInterval == 2
MaxCand == 2
MaxTrainRows == 2
MaxHist == 2

(***************************************************************************)
(* Program constants.                                                      *)
(***************************************************************************)
None == 0
NullTime == 0 - 1
WindowDays == 30
HistoryLimit == 200
RecentLimit == 12
TopK == 2
TrainingLimit == 5000

\* the one primary user
Primary == CHOOSE p \in {1} : TRUE
\* the rows of avail_slots (all of the one primary user) and the secondary users
SlotIds == {1, 2}
Secondaries == {2}
Day == 24

\* slot_time of the avail_slots row `id`: one slot per day from day 0 on, alternating
\* 10:00 / 09:00
SlotTime(id) == Day * (id - 1) + 9 + (id % 2)
\* the start_time values a client enters by hand (09:00 of day 0)
ManualTimes == {9}

Hour(t) == t % Day
DayOfWeek(t) == (t \div Day) % 7
Date(t) == t \div Day
Abs(x) == IF x < 0 THEN 0 - x ELSE x
Min(a, b) == IF a < b THEN a ELSE b

Perms(n) == {f \in [1 .. n -> 1 .. n] : \A i, j \in 1 .. n : f[i] = f[j] => i = j}

(***************************************************************************)
(* Data fetching helpers                                                   *)
(***************************************************************************)
RECURSIVE OrderDesc(_, _)
OrderDesc(bk, idx) ==
    IF idx = {} THEN <<>>
    ELSE LET m == CHOOSE i \in idx : \A j \in idx :
                      \/ bk[i].start_time > bk[j].start_time
                      \/ bk[i].start_time = bk[j].start_time /\ i <= j
         IN  <<bk[m]>> \o OrderDesc(bk, idx \ {m})

fetch_booking_history(bk, p, s) ==
    LET idx == {i \in 1 .. Len(bk) : bk[i].primary_user_id = p /\ bk[i].secondary_user_id = s}
        all == OrderDesc(bk, idx)
    IN  SubSeq(all, 1, Min(HistoryLimit, Len(all)))

\* the elements of a set of ids, in ascending order
RECURSIVE Ascending(_)
Ascending(ids) ==
    IF ids = {} THEN <<>>
    ELSE LET m == CHOOSE i \in ids : \A j \in ids : i <= j
         IN  <<m>> \o Ascending(ids \ {m})

fetch_future_avail_slots(av, now) ==
    LET ids == Ascending({id \in SlotIds :
                    SlotTime(id) >= now /\ SlotTime(id) <= now + WindowDays * Day})
    IN  [i \in 1 .. Len(ids) |->
            [id |-> ids[i], slot_time |-> SlotTime(ids[i]), is_booked |-> av[ids[i]]]]

(***************************************************************************)
(* Feature engineering                                                     *)
(***************************************************************************)
\* NotCancelled with the status test left out
KeepAll(h) == h

\* history_df[history_df['status'] != 'cancelled']
NotCancelled(h) == SelectSeq(h, LAMBDA b : b.status # "cancelled")

FeatureRow(row, prev) ==
    LET slot_ts == row.slot_time
        has_prev == Len(prev) > 0
        prev_ts == IF has_prev THEN prev[1].start_time ELSE 0
        recent == SubSeq(prev, 1, Min(RecentLimit, Len(prev)))
    IN  [slot_id |-> row.id,
         slot_time |-> slot_ts,
         slot_hour |-> Hour(slot_ts),
         slot_dow |-> DayOfWeek(slot_ts),
         slot_is_free |-> IF row.is_booked THEN 0 ELSE 1,
         same_hour |-> IF has_prev /\ Hour(prev_ts) = Hour(slot_ts) THEN 1 ELSE 0,
         same_dow |-> IF has_prev /\ DayOfWeek(prev_ts) = DayOfWeek(slot_ts) THEN 1 ELSE 0,
         hour_diff |-> IF has_prev THEN Abs(slot_ts - prev_ts) ELSE 999,
         days_since_last |-> IF has_prev THEN Date(slot_ts) - Date(prev_ts) ELSE 999,
         recent_count |-> IF has_prev
                          THEN Len(SelectSeq(recent, LAMBDA b : Hour(b.start_time) = Hour(slot_ts)))
                          ELSE 0]

build_candidate_features(candidate_slots, history) ==
    LET prev == NotCancelled(history)
    IN  [i \in 1 .. Len(candidate_slots) |-> FeatureRow(candidate_slots[i], prev)]

NotBuilt == [called |-> FALSE, candidate_slots |-> <<>>, history |-> <<>>, features |-> <<>>]

(***************************************************************************)
(* Model utilities.  The artifact is a file: absent, a complete pickle of  *)
(* a fitted classifier, a complete pickle of something that cannot predict,*)
(* or a file opened for writing whose pickle is not complete yet.          *)
(***************************************************************************)
NoModel == [kind |-> "none", n |-> 0, pos |-> 0]
Partial == [kind |-> "partial", n |-> 0, pos |-> 0]
Unusable == [kind |-> "unusable", n |-> 0, pos |-> 0]
PriorModel == [kind |-> "model", n |-> 4, pos |-> 1]

\* load_model: None when the file is absent; pickle.load raises on a truncated file
load_model(file) ==
    IF file.kind = "none" THEN [raised |-> FALSE, model |-> NoModel]
    ELSE IF file.kind = "partial" THEN [raised |-> TRUE, model |-> NoModel]
    ELSE [raised |-> FALSE, model |-> file]

FeatureCols == {"slot_is_free", "same_hour", "same_dow", "hour_diff", "days_since_last",
                "recent_count"}

Positives(rows) == Len(SelectSeq(rows, LAMBDA r : r.chosen = 1))

\* LogisticRegression.fit: the fitted classifier, identified by the data it saw
Fit(rows) == [kind |-> "model", n |-> Len(rows), pos |-> Positives(rows)]

\* train_ranking_model with the file opened for writing before the frame is checked
\* and the classifier fitted
train_opens_file_first(df, file) ==
    IF ~ (FeatureCols \subseteq df.cols) \/ "chosen" \notin df.cols
    THEN [ok |-> FALSE, error |-> "KeyError", model |-> NoModel, file |-> Partial]
    ELSE IF Len(df.rows) = 0 \/ Positives(df.rows) = 0 \/ Positives(df.rows) = Len(df.rows)
    THEN [ok |-> FALSE, error |-> "ValueError", model |-> NoModel, file |-> Partial]
    ELSE [ok |-> TRUE, error |-> "", model |-> Fit(df.rows), file |-> Partial]

\* train_ranking_model up to and including open(save_path, 'wb'), which truncates the
\* file: the checks and the fit come first, so a failure leaves the file as it was.
\* pickle.dump then completes the file (TrainDump).
train_ranking_model(df, file) ==
    IF Len(df.rows) = 0 \/ df.cols = {}
    THEN [ok |-> FALSE, error |-> "ValueError: Empty training data", model |-> NoModel,
          file |-> file]
    ELSE IF ~ (FeatureCols \subseteq df.cols) \/ "chosen" \notin df.cols
    THEN [ok |-> FALSE, error |-> "KeyError", model |-> NoModel, file |-> file]
    ELSE IF Positives(df.rows) = 0 \/ Positives(df.rows) = Len(df.rows)
    THEN [ok |-> FALSE, error |-> "ValueError: one class", model |-> NoModel, file |-> file]
    ELSE [ok |-> TRUE, error |-> "", model |-> Fit(df.rows), file |-> Partial]

(***************************************************************************)
(* Scoring & recommend                                                     *)
(***************************************************************************)
\* predict_proba(X)[:,1] scaled by 1000: a stand-in for the opaque classifier,
\* a function of the fitted model and of the row
PredictProba(m, row) ==
    LET base == (1000 * m.pos) \div m.n
    IN  IF row.same_hour = 1 THEN (base + 1000) \div 2 ELSE base \div 2

ml_score(model, row) ==
    IF model.kind = "model" THEN PredictProba(model, row) ELSE 0

rule_score(row) ==
    row.same_hour * 500 + row.same_dow * 300 + row.slot_is_free * 200 + row.recent_count * 50

\* 1000 * exp(-hour_diff / 24), rounded down step by step
\* (exp(-1) = 0.368, exp(-1/24) = 0.959)
RECURSIVE diff_score(_)
diff_score(h) ==
    IF h = 0 THEN 1000
    ELSE IF h > 240 THEN 0
    ELSE IF h >= 24 THEN (diff_score(h - 24) * 368) \div 1000
    ELSE (diff_score(h - 1) * 959) \div 1000

total_score(model, row) == 6 * ml_score(model, row) + 3 * rule_score(row) + diff_score(row.hour_diff)

WithScore(model, row) ==
    [slot_id |-> row.slot_id, slot_time |-> row.slot_time, slot_hour |-> row.slot_hour,
     slot_dow |-> row.slot_dow, slot_is_free |-> row.slot_is_free,
     same_hour |-> row.same_hour, same_dow |-> row.same_dow, hour_diff |-> row.hour_diff,
     days_since_last |-> row.days_since_last, recent_count |-> row.recent_count,
     score |-> total_score(model, row)]

\* DataFrame.sort_values('score', ascending=False) with the default kind='quicksort':
\* every ordering by non-increasing score is a possible result (not a stable sort)
sort_values(rows) ==
    {[i \in 1 .. Len(rows) |-> rows[f[i]]] : f \in
        {g \in Perms(Len(rows)) :
            \A i, j \in 1 .. Len(rows) : i < j => rows[g[i]].score >= rows[g[j]].score}}

score_candidates(candidate_df, model) ==
    sort_values([i \in 1 .. Len(candidate_df) |-> WithScore(model, candidate_df[i])])

TopKResults(scored, k) ==
    [i \in 1 .. Min(k, Len(scored)) |-> [slot_id |-> scored[i].slot_id, score |-> scored[i].score]]

\* recommend_top_k(..., return_candidates=True): the set of possible outcomes
recommend_top_k(bk, av, file, now, p, s, k) ==
    LET history == fetch_booking_history(bk, p, s)
        slots == fetch_future_avail_slots(av, now)
        cand_feats == build_candidate_features(slots, history)
        loaded == load_model(file)
    IN  IF Len(slots) = 0 THEN {[raised |-> FALSE, results |-> <<>>, scored |-> <<>>]}
        ELSE IF loaded.raised THEN {[raised |-> TRUE, results |-> <<>>, scored |-> <<>>]}
        ELSE {[raised |-> FALSE, results |-> TopKResults(sc, k), scored |-> sc] :
                sc \in score_candidates(cand_feats, loaded.model)}

(***************************************************************************)
(* Logging (training data)                                                 *)
(***************************************************************************)
LogRow(sid, p, s, row) ==
    [session_id |-> sid, primary_user_id |-> p, secondary_user_id |-> s,
     slot_id |-> row.slot_id, slot_time |-> row.slot_time,
     same_hour |-> row.same_hour, same_dow |-> row.same_dow, hour_diff |-> row.hour_diff,
     slot_is_free |-> row.slot_is_free, recent_count |-> row.recent_count, chosen |-> 0]

\* uuid.uuid4(): an id no earlier call returned (ids are numbered in minting order)
uuid4(minted) == minted

\* log_recommendation_session: `minted` is the next unused id.  int(row['slot_id'])
\* raises on a None slot_id; the inserts run in one transaction, so a raise leaves no row.
log_recommendation_session(lg, minted, p, s, candidate_df) ==
    LET session_id == uuid4(minted)
    IN  IF Len(candidate_df) = 0
        THEN [raised |-> FALSE, session_id |-> session_id, logs |-> lg]
        ELSE IF \E i \in 1 .. Len(candidate_df) : candidate_df[i].slot_id = None
        THEN [raised |-> TRUE, session_id |-> None, logs |-> lg]
        ELSE [raised |-> FALSE, session_id |-> session_id,
              logs |-> lg \o [i \in 1 .. Len(candidate_df) |->
                                 LogRow(session_id, p, s, candidate_df[i])]]

\* update_chosen_slot with the slot_id test left out of the WHERE clause
update_chosen_slot_any_row(lg, session_id, chosen_slot_id) ==
    IF session_id = None THEN lg
    ELSE [i \in 1 .. Len(lg) |->
            IF lg[i].session_id = session_id THEN [lg[i] EXCEPT !.chosen = 1] ELSE lg[i]]

\* update_chosen_slot written as SET chosen = 1 - chosen
update_chosen_slot_toggle(lg, session_id, chosen_slot_id) ==
    IF session_id = None THEN lg
    ELSE [i \in 1 .. Len(lg) |->
            IF lg[i].session_id = session_id /\ chosen_slot_id # None
               /\ lg[i].slot_id = chosen_slot_id
            THEN [lg[i] EXCEPT !.chosen = 1 - lg[i].chosen]
            ELSE lg[i]]

\* update_chosen_slot with a null slot_id taken as the first row of the session
update_chosen_slot_null_is_first(lg, session_id, chosen_slot_id) ==
    IF session_id = None THEN lg
    ELSE [i \in 1 .. Len(lg) |->
            IF /\ lg[i].session_id = session_id
               /\ \/ chosen_slot_id # None /\ lg[i].slot_id = chosen_slot_id
                  \/ chosen_slot_id = None /\ \A j \in 1 .. (i - 1) : lg[j].session_id # session_id
            THEN [lg[i] EXCEPT !.chosen = 1]
            ELSE lg[i]]

\* update_chosen_slot without the early return on a missing session_id, the WHERE
\* clause then testing the slot_id alone
update_chosen_slot_any_session(lg, session_id, chosen_slot_id) ==
    [i \in 1 .. Len(lg) |->
        IF (session_id = None \/ lg[i].session_id = session_id) /\ chosen_slot_id # None
           /\ lg[i].slot_id = chosen_slot_id
        THEN [lg[i] EXCEPT !.chosen = 1]
        ELSE lg[i]]

\* update_chosen_slot that also clears the other rows of the session
update_chosen_slot_exclusive(lg, session_id, chosen_slot_id) ==
    IF session_id = None THEN lg
    ELSE [i \in 1 .. Len(lg) |->
            IF lg[i].session_id = session_id
            THEN [lg[i] EXCEPT !.chosen = IF chosen_slot_id # None
                                             /\ lg[i].slot_id = chosen_slot_id
                                          THEN 1 ELSE 0]
            ELSE lg[i]]

\* UPDATE recommendation_logs SET chosen = 1 WHERE session_id = :sid AND slot_id = :slot
\* (slot_id = NULL matches no row)
update_chosen_slot(lg, session_id, chosen_slot_id) ==
    IF session_id = None THEN lg
    ELSE [i \in 1 .. Len(lg) |->
            IF lg[i].session_id = session_id /\ chosen_slot_id # None
               /\ lg[i].slot_id = chosen_slot_id
            THEN [lg[i] EXCEPT !.chosen = 1]
            ELSE lg[i]]

TrainingCols == {"same_hour", "same_dow", "hour_diff", "slot_is_free", "recent_count", "chosen"}

TrainingRow(r) ==
    [same_hour |-> r.same_hour, same_dow |-> r.same_dow, hour_diff |-> r.hour_diff,
     slot_is_free |-> r.slot_is_free, recent_count |-> r.recent_count, chosen |-> r.chosen]

\* get_training_data: the newest `limit` rows, newest first
get_training_data(lg, limit) ==
    LET n == Min(limit, Len(lg))
    IN  [cols |-> TrainingCols,
         rows |-> [i \in 1 .. n |-> TrainingRow(lg[Len(lg) + 1 - i])]]

(***************************************************************************)
(* API: /recommend_slots                                                   *)
(***************************************************************************)
\* a request value int() raises on: an absent key, null, or text that is no number
Malformed == 0 - 2

\* int(v), as the handlers apply it to the identifiers of request.json
int(v) == [raised |-> v = Malformed, value |-> v]

\* the values the fields of request.json are drawn from: the requests of a client that
\* sends its identifiers well formed and whose label update goes through, and all
\* requests
WellFormed ==
    [primary_user_id |-> {Primary}, secondary_user_id |-> Secondaries,
     slot_id |-> SlotIds \cup {None}, interval_days |-> 1 .. MaxInterval,
     label_update_fails |-> {FALSE}]

AnyRequest ==
    [primary_user_id |-> {Primary, Malformed}, secondary_user_id |-> Secondaries \cup {Malformed},
     slot_id |-> SlotIds \cup {None, Malformed},
     interval_days |-> (1 .. MaxInterval) \cup {Malformed},
     label_update_fails |-> BOOLEAN]

\* an entry of the response's slots: slot_time is that of the slot and is left out
manual_slot == [slot_id |-> None, score |-> 10000]
NoResponse == [status |-> 0, slots |-> <<>>, session_id |-> None]

\* the handler, over the requests req
recommend_slots(req) ==
    /\ nextSession <= MaxSessions
    /\ \E p \in req.primary_user_id, s \in req.secondary_user_id :
        IF int(p).raised \/ int(s).raised
        THEN /\ resp' = [status |-> 500, slots |-> <<>>, session_id |-> None]
             /\ UNCHANGED <<logs, nextSession>>
        ELSE
        \E r \in recommend_top_k(bookings, avail_slots, artifact, clock, p, s, TopK) :
            LET lr == log_recommendation_session(logs, nextSession, p, s, r.scored)
            IN  IF r.raised \/ lr.raised
                THEN /\ resp' = [status |-> 500, slots |-> <<>>, session_id |-> None]
                     /\ UNCHANGED <<logs, nextSession>>
                ELSE /\ resp' = [status |-> 200, slots |-> <<manual_slot>> \o r.results,
                                 session_id |-> lr.session_id]
                     /\ logs' = lr.logs
                     /\ nextSession' = nextSession + 1
    /\ UNCHANGED <<built, setresp, txn, clock, avail_slots, bookings, conf, artifact, retrain, settings, sweep,
                   attempts, notif, trainer, scoring>>

RecommendSlots == recommend_slots(WellFormed)

(***************************************************************************)
(* API: /confirm_appointment                                               *)
(***************************************************************************)
\* the inserted row; end_time (start + duration_minutes) is read by no operation
Booking(p, s, start) ==
    [primary_user_id |-> p, secondary_user_id |-> s, start_time |-> start, status |-> "booked"]

SessionIds == 1 .. (nextSession - 1)
NoConfirm == [status |-> 0, slot_id |-> None, session_id |-> None, error |-> "",
              label |-> "none", repeated |-> FALSE]

\* confirm_transaction with each statement committed as it is executed
confirm_transaction_autocommit(bk, av, p, s, slot_id, start) ==
    LET inserted == Append(bk, Booking(p, s, start))
    IN  IF slot_id = None
        THEN [raised |-> FALSE, bookings |-> inserted, avail_slots |-> av]
        ELSE IF int(slot_id).raised
        THEN [raised |-> TRUE, bookings |-> inserted, avail_slots |-> av]
        ELSE [raised |-> FALSE, bookings |-> inserted,
              avail_slots |-> [av EXCEPT ![slot_id] = TRUE]]

\* the block under `with engine.begin() as conn`: the INSERT of the booking, then, when
\* slot_id is not None, the UPDATE of the slot.  int(slot_id) is evaluated after the
\* INSERT was executed; when it raises the block is left by the exception and the
\* transaction is rolled back.
confirm_transaction(bk, av, p, s, slot_id, start) ==
    LET inserted == Append(bk, Booking(p, s, start))
    IN  IF slot_id = None
        THEN [raised |-> FALSE, bookings |-> inserted, avail_slots |-> av]
        ELSE IF int(slot_id).raised
        THEN [raised |-> TRUE, bookings |-> bk, avail_slots |-> av]
        ELSE [raised |-> FALSE, bookings |-> inserted,
              avail_slots |-> [av EXCEPT ![slot_id] = TRUE]]

\* backfill_label without the try/except around update_chosen_slot
backfill_label_propagates(lg, session_id, slot_id, fails) ==
    IF session_id = None THEN [raised |-> FALSE, outcome |-> "none", logs |-> lg]
    ELSE IF fails THEN [raised |-> TRUE, outcome |-> "failed", logs |-> lg]
    ELSE [raised |-> FALSE, outcome |-> "ok",
          logs |-> update_chosen_slot(lg, session_id, slot_id)]

\* `if session_id:` try: update_chosen_slot(session_id, slot_id) except Exception: pass.
\* `fails` is the store refusing the UPDATE; update_chosen_slot runs it in a transaction
\* of its own, so a failed call leaves the rows as they were.
backfill_label(lg, session_id, slot_id, fails) ==
    IF session_id = None THEN [raised |-> FALSE, outcome |-> "none", logs |-> lg]
    ELSE IF fails THEN [raised |-> FALSE, outcome |-> "failed", logs |-> lg]
    ELSE [raised |-> FALSE, outcome |-> "ok",
          logs |-> update_chosen_slot(lg, session_id, slot_id)]

\* the request names a slot and that slot's time, or no slot and a time entered by hand.
\* conf.repeated: the request repeats the session_id and slot_id of the request before
\* it, and the label update of both went through.
confirm_appointment(req) ==
    /\ Len(bookings) < MaxBookings
    /\ \E p \in req.primary_user_id, s \in req.secondary_user_id :
        IF int(p).raised \/ int(s).raised
        THEN /\ conf' = [status |-> 500, slot_id |-> None, session_id |-> None,
                         error |-> IF int(p).raised THEN "primary_user_id"
                                   ELSE "secondary_user_id",
                         label |-> "none", repeated |-> FALSE]
             /\ UNCHANGED <<bookings, avail_slots, logs>>
        ELSE
        \E slot_id \in req.slot_id, manual \in ManualTimes :
        LET start == IF slot_id \in SlotIds THEN SlotTime(slot_id) ELSE manual
            tx == confirm_transaction(bookings, avail_slots, p, s, slot_id, start)
        IN  IF tx.raised
            THEN /\ conf' = [status |-> 500, slot_id |-> slot_id, session_id |-> None,
                             error |-> "slot_id", label |-> "none", repeated |-> FALSE]
                 /\ bookings' = tx.bookings
                 /\ avail_slots' = tx.avail_slots
                 /\ UNCHANGED logs
            ELSE
            \E session_id \in SessionIds \cup {None} :
            \E fails \in IF session_id = None THEN {FALSE} ELSE req.label_update_fails :
            LET lab == backfill_label(logs, session_id, slot_id, fails)
            IN  /\ bookings' = tx.bookings
                /\ avail_slots' = tx.avail_slots
                /\ logs' = lab.logs
                /\ conf' = [status |-> IF lab.raised THEN 500 ELSE 200,
                             slot_id |-> slot_id, session_id |-> session_id,
                             error |-> IF lab.raised THEN "update_chosen_slot" ELSE "",
                             label |-> lab.outcome,
                             repeated |-> /\ lab.outcome = "ok"
                                          /\ conf.status = 200
                                          /\ conf.label = "ok"
                                          /\ conf.session_id = session_id
                                          /\ conf.slot_id = slot_id]
    /\ UNCHANGED <<built, setresp, txn, clock, nextSession, resp, artifact, retrain, settings, sweep,
                   attempts, notif, trainer, scoring>>

ConfirmAppointment == confirm_appointment(WellFormed)

\* no /confirm_appointment transaction is open
TxnIdle == [pc |-> "idle", pending |-> <<>>, flips |-> {}, slot_id |-> None,
            session_id |-> None, fails |-> FALSE]

(***************************************************************************)
(* API: /set_reminder                                                      *)
(***************************************************************************)
NoSetting == [present |-> FALSE, reminder_interval_days |-> 0,
              last_reminder_sent |-> NullTime, active |-> FALSE]

\* INSERT ... ON CONFLICT (primary_user_id, secondary_user_id) DO UPDATE
upsert_reminder(row, d) ==
    [present |-> TRUE, reminder_interval_days |-> d,
     last_reminder_sent |-> IF row.present THEN row.last_reminder_sent ELSE NullTime,
     active |-> TRUE]

NoSetResponse == [status |-> 0]

\* the three int() conversions, then the upsert in its transaction
set_reminder_call(st, p, s, d) ==
    IF int(p).raised \/ int(s).raised \/ int(d).raised
    THEN [raised |-> TRUE, settings |-> st]
    ELSE [raised |-> FALSE, settings |-> [st EXCEPT ![s] = upsert_reminder(st[s], d)]]

set_reminder(req) ==
    /\ \E p \in req.primary_user_id, s \in req.secondary_user_id, d \in req.interval_days :
        LET res == set_reminder_call(settings, p, s, d)
        IN  /\ settings' = res.settings
            /\ setresp' = [status |-> IF res.raised THEN 500 ELSE 200]
    /\ UNCHANGED <<built, txn, clock, avail_slots, bookings, logs, nextSession, resp, conf, artifact, retrain,
                   sweep, attempts, notif, trainer, scoring>>

SetReminder == set_reminder(WellFormed)

(***************************************************************************)
(* API: /reminder_slots, and the background reminder job                   *)
(***************************************************************************)
\* SELECT start_time FROM bookings WHERE pair ORDER BY start_time DESC LIMIT 1
last_booking(bk, p, s) == fetch_booking_history(bk, p, s)

\* /reminder_slots: the last booking's time as the single slot, slot_id None
reminder_slots(bk, p, s) ==
    LET last_b == last_booking(bk, p, s)
    IN  IF Len(last_b) = 0 THEN <<>>
        ELSE <<[slot_id |-> None, slot_time |-> last_b[1].start_time, score |-> 10000]>>

\* the one-row candidate frame the job builds from the slot it got
reminder_candidates(slots) ==
    [i \in 1 .. Min(1, Len(slots)) |->
        [slot_id |-> None, slot_time |-> slots[1].slot_time, same_hour |-> 1, same_dow |-> 1,
         hour_diff |-> 0, slot_is_free |-> 1, recent_count |-> 0]]

remind_time(last_b, interval) == last_b[1].start_time + interval * Day

\* the job's test for sending: `if last_sent is None or now >= remind_time`
should_send(last_sent, now, remind) == last_sent = NullTime \/ now >= remind

\* after_post with the UPDATE skipped when the delivery failed
after_post_only_if_delivered(delivered) == IF delivered THEN "refresh" ELSE "next"

\* where the job goes after requests.post(NOTIF_ENDPOINT): the except clause swallows
\* a failed delivery and the UPDATE of last_reminder_sent follows in both cases
after_post(delivered) == "refresh"

SweepIdle == [pc |-> "idle", rows |-> <<>>, i |-> 0, now |-> 0]
NoNotif == [to |-> None, slots |-> <<>>, session_id |-> None, delivered |-> FALSE]

ActiveRows(st) ==
    LET ids == Ascending({s \in Secondaries : st[s].present /\ st[s].active})
    IN  [i \in 1 .. Len(ids) |->
            [id |-> ids[i], primary_user_id |-> Primary, secondary_user_id |-> ids[i],
             reminder_interval_days |-> st[ids[i]].reminder_interval_days,
             last_reminder_sent |-> st[ids[i]].last_reminder_sent]]

\* the loop moves to the next row, or the job returns
Advance(sw) ==
    IF sw.i >= Len(sw.rows) THEN [sw EXCEPT !.pc = "idle"]
    ELSE [sw EXCEPT !.pc = "row", !.i = sw.i + 1]

\* SELECT * FROM reminder_settings WHERE active=true; now = datetime.utcnow()
SweepStart ==
    /\ sweep.pc = "idle"
    /\ LET rows == ActiveRows(settings)
       IN  sweep' = [pc |-> IF Len(rows) = 0 THEN "idle" ELSE "row", rows |-> rows,
                     i |-> IF Len(rows) = 0 THEN 0 ELSE 1, now |-> clock]
    /\ attempts' = [s \in Secondaries |-> <<>>]
    /\ UNCHANGED <<built, setresp, txn, clock, avail_slots, bookings, logs, nextSession, resp, conf, artifact, retrain,
                   settings, notif, trainer, scoring>>

\* one pass of the loop body up to and including the notification post
SweepRow ==
    /\ sweep.pc = "row"
    /\ LET row == sweep.rows[sweep.i]
           s == row.secondary_user_id
           last_b == last_booking(bookings, Primary, s)
       IN  IF Len(last_b) = 0
              \/ ~ should_send(row.last_reminder_sent, sweep.now,
                               remind_time(last_b, row.reminder_interval_days))
           THEN /\ sweep' = Advance(sweep)
                /\ UNCHANGED <<logs, nextSession, attempts, notif>>
           ELSE \E reachable \in BOOLEAN, delivered \in BOOLEAN :
                LET slots == IF reachable THEN reminder_slots(bookings, Primary, s) ELSE <<>>
                    lr == log_recommendation_session(logs, nextSession, Primary, s,
                                                     reminder_candidates(slots))
                    logged == Len(slots) > 0 /\ ~ lr.raised
                IN  /\ logs' = IF logged THEN lr.logs ELSE logs
                    /\ nextSession' = IF logged THEN nextSession + 1 ELSE nextSession
                    /\ notif' = [to |-> s, slots |-> slots,
                                 session_id |-> IF logged THEN lr.session_id ELSE None,
                                 delivered |-> delivered]
                    /\ attempts' = [attempts EXCEPT ![s] = Append(@, delivered)]
                    /\ sweep' = IF after_post(delivered) = "refresh"
                                THEN [sweep EXCEPT !.pc = "refresh"]
                                ELSE Advance(sweep)
    /\ UNCHANGED <<built, setresp, txn, clock, avail_slots, bookings, resp, conf, artifact, retrain, settings,
                   trainer, scoring>>

\* UPDATE reminder_settings SET last_reminder_sent = NOW() WHERE id=:id
SweepRefresh ==
    /\ sweep.pc = "refresh"
    /\ LET id == sweep.rows[sweep.i].id
       IN  settings' = [settings EXCEPT ![id].last_reminder_sent = clock]
    /\ sweep' = Advance(sweep)
    /\ UNCHANGED <<built, setresp, txn, clock, avail_slots, bookings, logs, nextSession, resp, conf, artifact, retrain,
                   attempts, notif, trainer, scoring>>

(***************************************************************************)
(* Retrain job                                                             *)
(***************************************************************************)
TrainerIdle == [pc |-> "idle", model |-> NoModel, error |-> ""]
NoRetrain == [outcome |-> "none", error |-> "", propagated |-> FALSE, n |-> 0, pos |-> 0]

\* get_training_data never selects days_since_last, so under the job the trainer's
\* column selection raises before the file is opened; a successful call would leave the
\* dump pending (TrainDump)
RetrainJob ==
    /\ trainer.pc = "idle"
    /\ LET df == get_training_data(logs, TrainingLimit)
           res == train_ranking_model(df, artifact)
       IN  IF Len(df.rows) = 0
           THEN /\ retrain' = [outcome |-> "skipped", error |-> "", propagated |-> FALSE,
                               n |-> 0, pos |-> 0]
                /\ UNCHANGED <<artifact, trainer>>
           ELSE /\ artifact' = res.file
                /\ trainer' = IF res.ok
                              THEN [pc |-> "dump", model |-> res.model, error |-> ""]
                              ELSE TrainerIdle
                /\ retrain' = [outcome |-> IF res.ok THEN "writing" ELSE "failed",
                               error |-> res.error, propagated |-> FALSE,
                               n |-> Len(df.rows), pos |-> Positives(df.rows)]
    /\ UNCHANGED <<built, setresp, txn, clock, avail_slots, bookings, logs, nextSession, resp, conf, settings, sweep,
                   attempts, notif, scoring>>

(***************************************************************************)
(* Passage of time                                                         *)
(***************************************************************************)
Tick ==
    /\ clock < MaxDays * Day
    /\ clock' = clock + Day
    /\ UNCHANGED <<built, setresp, txn, avail_slots, bookings, logs, nextSession, resp, conf, artifact, retrain,
                   settings, sweep, attempts, notif, trainer, scoring>>

(***************************************************************************)
(* The recommendation and feedback loop                                    *)
(***************************************************************************)
NoScoring == [outcome |-> "none", file |-> NoModel, input |-> <<>>, scored |-> <<>>]

InitStore ==
    /\ clock = 0
    /\ avail_slots = [id \in SlotIds |-> FALSE]
    /\ bookings = <<>>
    /\ logs = <<>>
    /\ nextSession = 1
    /\ resp = NoResponse
    /\ conf = NoConfirm
    /\ retrain = NoRetrain
    /\ settings = [s \in Secondaries |-> NoSetting]
    /\ sweep = SweepIdle
    /\ attempts = [s \in Secondaries |-> <<>>]
    /\ notif = NoNotif
    /\ trainer = TrainerIdle
    /\ scoring = NoScoring
    /\ setresp = NoSetResponse
    /\ txn = TxnIdle
    /\ built = NotBuilt

Init ==
    /\ InitStore
    /\ artifact \in {NoModel, PriorModel}

Next == RecommendSlots \/ ConfirmAppointment \/ Tick

Spec == Init /\ [][Next]_vars

(***************************************************************************)
(* The feedback loop feeding the periodic retrain job                      *)
(***************************************************************************)
NextRetrain == RecommendSlots \/ ConfirmAppointment \/ RetrainJob

SpecRetrain == Init /\ [][NextRetrain]_vars

(***************************************************************************)
(* The reminder subsystem: settings, bookings and the periodic sweep       *)
(***************************************************************************)
InitReminder ==
    /\ InitStore
    /\ artifact = NoModel

NextReminder ==
    SetReminder \/ ConfirmAppointment \/ SweepStart \/ SweepRow \/ SweepRefresh \/ Tick

SpecReminder == InitReminder /\ [][NextReminder]_vars

(***************************************************************************)
(* The model artifact: train_ranking_model called with a caller's frame,   *)
(* running concurrently with scoring calls that load the artifact          *)
(***************************************************************************)
\* the candidate frames: slots 1..n, each free or booked, over an empty history or a
\* history of one booking
SlotFrames ==
    UNION {{[i \in 1 .. n |-> [id |-> i, slot_time |-> SlotTime(i), is_booked |-> b[i]]] :
              b \in [1 .. n -> BOOLEAN]} : n \in 1 .. MaxCand}

Histories == {<<>>} \cup {<<Booking(Primary, s, start)>> : s \in Secondaries, start \in ManualTimes}

CandidateFrames ==
    {build_candidate_features(sl, h) : sl \in SlotFrames, h \in Histories}

\* the training frames: with or without the days_since_last column, any labels
LabelledRow(c) ==
    [same_hour |-> 1, same_dow |-> 0, hour_diff |-> 24, slot_is_free |-> 1,
     days_since_last |-> 1, recent_count |-> 1, chosen |-> c]

TrainingFrames ==
    {[cols |-> cols, rows |-> [i \in DOMAIN lab |-> LabelledRow(lab[i])]] :
        cols \in {TrainingCols, TrainingCols \cup {"days_since_last"}},
        lab \in UNION {[1 .. n -> {0, 1}] : n \in 0 .. MaxTrainRows}}

\* train_ranking_model(training_df) up to open(save_path, 'wb')
TrainCall ==
    /\ trainer.pc = "idle"
    /\ \E df \in TrainingFrames :
        LET res == train_ranking_model(df, artifact)
        IN  /\ artifact' = res.file
            /\ trainer' = [pc |-> IF res.ok THEN "dump" ELSE "idle", model |-> res.model,
                           error |-> res.error]
    /\ UNCHANGED <<built, setresp, txn, clock, avail_slots, bookings, logs, nextSession, resp, conf, retrain, settings,
                   sweep, attempts, notif, scoring>>

\* pickle.dump(model, f) and the close of the file: the artifact is complete
TrainDump ==
    /\ trainer.pc = "dump"
    /\ artifact' = trainer.model
    /\ trainer' = [trainer EXCEPT !.pc = "idle"]
    /\ UNCHANGED <<built, setresp, txn, clock, avail_slots, bookings, logs, nextSession, resp, conf, retrain, settings,
                   sweep, attempts, notif, scoring>>

\* model = load_model(); scored = score_candidates(cand_feats, model)
ScoreCall ==
    /\ \E cand \in CandidateFrames :
        LET loaded == load_model(artifact)
        IN  IF loaded.raised
            THEN scoring' = [outcome |-> "raised", file |-> artifact, input |-> cand,
                             scored |-> <<>>]
            ELSE \E sc \in score_candidates(cand, loaded.model) :
                    scoring' = [outcome |-> "ok", file |-> artifact, input |-> cand,
                                scored |-> sc]
    /\ UNCHANGED <<built, setresp, txn, clock, avail_slots, bookings, logs, nextSession, resp, conf, artifact, retrain,
                   settings, sweep, attempts, notif, trainer>>

InitModel ==
    /\ InitStore
    /\ artifact \in {NoModel, Unusable, PriorModel}

NextModel == TrainCall \/ TrainDump \/ ScoreCall

SpecModel == InitModel /\ [][NextModel]_vars

(***************************************************************************)
(* The three request handlers over all requests, those with malformed      *)
(* identifiers and those whose label update is refused included            *)
(***************************************************************************)
RecommendSlotsRequest == recommend_slots(AnyRequest)

ConfirmAppointmentRequest == confirm_appointment(AnyRequest)

SetReminderRequest == set_reminder(AnyRequest)

NextApi == RecommendSlotsRequest \/ ConfirmAppointmentRequest \/ SetReminderRequest

SpecApi == InitReminder /\ [][NextApi]_vars

(***************************************************************************)
(* /confirm_appointment statement by statement, with /recommend_slots      *)
(* requests running between its statements.  A connection sees of the      *)
(* store what is committed: bookings and avail_slots are the committed     *)
(* tables, txn holds the writes of the open transaction.                   *)
(***************************************************************************)
\* conn.execute(INSERT INTO bookings ...) on a connection that commits each statement
execute_insert_autocommit(bk, pending, row) ==
    [bookings |-> Append(bk, row), pending |-> pending]

\* conn.execute(INSERT INTO bookings ...) under engine.begin(): the row is the
\* transaction's own until the commit
execute_insert(bk, pending, row) ==
    [bookings |-> bk, pending |-> Append(pending, row)]

\* the handler up to and including the INSERT
ConfirmInsert ==
    /\ txn.pc = "idle"
    /\ Len(bookings) < MaxBookings
    /\ \E p \in AnyRequest.primary_user_id, s \in AnyRequest.secondary_user_id :
        IF int(p).raised \/ int(s).raised
        THEN /\ conf' = [status |-> 500, slot_id |-> None, session_id |-> None,
                         error |-> IF int(p).raised THEN "primary_user_id"
                                   ELSE "secondary_user_id",
                         label |-> "none", repeated |-> FALSE]
             /\ UNCHANGED <<bookings, txn>>
        ELSE
        \E slot_id \in AnyRequest.slot_id, manual \in ManualTimes,
           session_id \in SessionIds \cup {None} :
        \E fails \in IF session_id = None THEN {FALSE} ELSE AnyRequest.label_update_fails :
        LET start == IF slot_id \in SlotIds THEN SlotTime(slot_id) ELSE manual
            ins == execute_insert(bookings, txn.pending, Booking(p, s, start))
        IN  /\ bookings' = ins.bookings
            /\ txn' = [pc |-> "inserted", pending |-> ins.pending, flips |-> {},
                       slot_id |-> slot_id, session_id |-> session_id, fails |-> fails]
            /\ UNCHANGED conf
    /\ UNCHANGED <<built, setresp, clock, avail_slots, logs, nextSession, resp, artifact, retrain,
                   settings, sweep, attempts, notif, trainer, scoring>>

\* `if slot_id is not None:` the UPDATE of the slot; int(slot_id) raising leaves the
\* block and rolls the transaction back
ConfirmUpdate ==
    /\ txn.pc = "inserted"
    /\ IF txn.slot_id = None
       THEN /\ txn' = [txn EXCEPT !.pc = "updated"]
            /\ UNCHANGED conf
       ELSE IF int(txn.slot_id).raised
       THEN /\ txn' = TxnIdle
            /\ conf' = [status |-> 500, slot_id |-> txn.slot_id, session_id |-> None,
                        error |-> "slot_id", label |-> "none", repeated |-> FALSE]
       ELSE /\ txn' = [txn EXCEPT !.pc = "updated", !.flips = {txn.slot_id}]
            /\ UNCHANGED conf
    /\ UNCHANGED <<built, setresp, clock, avail_slots, bookings, logs, nextSession, resp, artifact,
                   retrain, settings, sweep, attempts, notif, trainer, scoring>>

\* the end of the `with` block: the commit
ConfirmCommit ==
    /\ txn.pc = "updated"
    /\ bookings' = bookings \o txn.pending
    /\ avail_slots' = [id \in SlotIds |-> avail_slots[id] \/ id \in txn.flips]
    /\ txn' = [txn EXCEPT !.pc = "label", !.pending = <<>>, !.flips = {}]
    /\ UNCHANGED <<built, setresp, clock, logs, nextSession, resp, conf, artifact, retrain, settings,
                   sweep, attempts, notif, trainer, scoring>>

\* the label update after the commit, and the response
ConfirmLabel ==
    /\ txn.pc = "label"
    /\ LET lab == backfill_label(logs, txn.session_id, txn.slot_id, txn.fails)
       IN  /\ logs' = lab.logs
           /\ conf' = [status |-> IF lab.raised THEN 500 ELSE 200,
                       slot_id |-> txn.slot_id, session_id |-> txn.session_id,
                       error |-> IF lab.raised THEN "update_chosen_slot" ELSE "",
                       label |-> lab.outcome,
                       repeated |-> /\ lab.outcome = "ok"
                                    /\ conf.status = 200
                                    /\ conf.label = "ok"
                                    /\ conf.session_id = txn.session_id
                                    /\ conf.slot_id = txn.slot_id]
    /\ txn' = TxnIdle
    /\ UNCHANGED <<built, setresp, clock, avail_slots, bookings, nextSession, resp, artifact, retrain,
                   settings, sweep, attempts, notif, trainer, scoring>>

NextConfirm ==
    ConfirmInsert \/ ConfirmUpdate \/ ConfirmCommit \/ ConfirmLabel \/ RecommendSlots

SpecConfirm == InitReminder /\ [][NextConfirm]_vars

(***************************************************************************)
(* The feature builder, called with the frames its callers hand it:        *)
(* candidate slots, and a pair's history as fetch_booking_history returns  *)
(* it, newest first, with rows of any status                               *)
(***************************************************************************)
HistoryTimes == {9, 34}
Statuses == {"booked", "cancelled", "completed"}

FetchedHistories ==
    UNION {{h \in [1 .. n -> [primary_user_id : {Primary}, secondary_user_id : Secondaries,
                              start_time : HistoryTimes, status : Statuses]] :
              \A i \in 1 .. (n - 1) : h[i].start_time >= h[i + 1].start_time} :
           n \in 0 .. MaxHist}

BuildFeatures ==
    /\ \E sl \in SlotFrames, h \in FetchedHistories :
        built' = [called |-> TRUE, candidate_slots |-> sl, history |-> h,
                  features |-> build_candidate_features(sl, h)]
    /\ UNCHANGED <<setresp, txn, clock, avail_slots, bookings, logs, nextSession, resp, conf,
                   artifact, retrain, settings, sweep, attempts, notif, trainer, scoring>>

NextFeatures == BuildFeatures

SpecFeatures == InitReminder /\ [][NextFeatures]_vars

(***************************************************************************)
(* Properties                                                              *)
(***************************************************************************)
RowsOf(lg, sid) == {i \in 1 .. Len(lg) : lg[i].session_id = sid}
ChosenOf(lg, sid) == {i \in RowsOf(lg, sid) : lg[i].chosen = 1}
CandidatesOf(lg, sid) == {lg[i].slot_id : i \in RowsOf(lg, sid)}

\* a step of /confirm_appointment
IsConfirmStep == Len(bookings') = Len(bookings) + 1

\* C1: when a confirmation marks a slot of a session none of whose rows is chosen yet
\* (the session as log_session left it), and the slot is one of the session's
\* candidates, then afterwards exactly one row of the session has chosen = 1, the one
\* with that slot_id, and every other row of the session has chosen = 0.
C1_MarkChosenFlipsTheMatchingRow ==
    [][(/\ IsConfirmStep
        /\ conf'.session_id # None
        /\ ChosenOf(logs, conf'.session_id) = {}
        /\ conf'.slot_id \in CandidatesOf(logs, conf'.session_id))
       => (/\ Cardinality(ChosenOf(logs', conf'.session_id)) = 1
           /\ \A i \in RowsOf(logs', conf'.session_id) :
                 logs'[i].chosen = (IF logs'[i].slot_id = conf'.slot_id THEN 1 ELSE 0))]_vars

\* a session of two candidates, one of them marked by the last confirmation
C1_Witness ==
    /\ conf.session_id # None
    /\ Cardinality(RowsOf(logs, conf.session_id)) >= 2
    /\ Cardinality(ChosenOf(logs, conf.session_id)) = 1
    /\ \A i \in ChosenOf(logs, conf.session_id) : logs[i].slot_id = conf.slot_id

\* C2: in every reachable state each session has at most one row with chosen = 1.
C2_AtMostOneChosenPerSession ==
    \A sid \in SessionIds : Cardinality(ChosenOf(logs, sid)) <= 1

\* C3: a scoring call that loads the artifact never reads a partially written file:
\* it reads no file, or a complete one.
C3_ReadersNeverSeePartialArtifact ==
    scoring.outcome # "none" => scoring.file.kind # "partial"

RuleAndDecayOnly(row) == 3 * rule_score(row) + diff_score(row.hour_diff)

\* C4: a scoring call never raises, and when the artifact holds no usable model every
\* row's score is the rule and decay terms alone (learned term 0).
C4_ScoringNeverRaises ==
    /\ scoring.outcome # "raised"
    /\ (scoring.outcome = "ok" /\ scoring.file.kind # "model")
          => \A i \in 1 .. Len(scoring.scored) :
                scoring.scored[i].score = RuleAndDecayOnly(scoring.scored[i])

\* position of the row with this slot_id in the input frame
InputIndex(input, slot_id) == CHOOSE i \in 1 .. Len(input) : input[i].slot_id = slot_id

\* C5: the scorer's output is a permutation of its input rows, sorted by non-increasing
\* score, rows of equal score keeping the order they had in the input.
C5_OutputIsStableSortOfInput ==
    scoring.outcome = "ok" =>
        LET input == scoring.input
            out == scoring.scored
        IN  /\ Len(out) = Len(input)
            /\ {out[i].slot_id : i \in 1 .. Len(out)} = {input[i].slot_id : i \in 1 .. Len(input)}
            /\ \A i, j \in 1 .. Len(out) : (i < j) =>
                  /\ out[i].score >= out[j].score
                  /\ (out[i].score = out[j].score =>
                        InputIndex(input, out[i].slot_id) < InputIndex(input, out[j].slot_id))

InteractiveLogsAll ==
    (nextSession' # nextSession /\ resp'.status = 200 /\ resp' # resp)
    => LET cands == fetch_future_avail_slots(avail_slots, clock)
       IN  /\ Cardinality(RowsOf(logs', resp'.session_id)) = Len(cands)
           /\ CandidatesOf(logs', resp'.session_id) = {cands[i].id : i \in 1 .. Len(cands)}

ReminderLogsAll ==
    \A s \in Secondaries :
        (Len(attempts'[s]) > Len(attempts[s]))
        => (/\ (Len(notif'.slots) > 0 => notif'.session_id # None)
            /\ Cardinality(RowsOf(logs', notif'.session_id)) = Len(notif'.slots))

\* C6: every recommendation invocation logs one row per candidate under the session id
\* it hands out: the interactive request under the session_id of its response, the
\* reminder job under the session_id of its notification payload.
C6_EveryInvocationLogsItsCandidates ==
    [][InteractiveLogsAll /\ ReminderLogsAll]_vars

\* C7: after a retrain run over log rows of both classes, the persisted artifact is the
\* model fitted on those rows.
C7_RetrainPersistsTheNewModel ==
    (retrain.outcome # "none" /\ retrain.pos > 0 /\ retrain.pos < retrain.n
     /\ trainer.pc = "idle")
        => artifact = [kind |-> "model", n |-> retrain.n, pos |-> retrain.pos]

\* C8: a retrain run over no rows, or over rows of a single class, does not propagate
\* a failure, leaves the persisted artifact as it was and leaves no write pending.
C8_FailedRetrainKeepsTheArtifact ==
    [][(/\ RetrainJob
        /\ LET df == get_training_data(logs, TrainingLimit)
           IN  \/ Len(df.rows) = 0
               \/ Positives(df.rows) = 0
               \/ Positives(df.rows) = Len(df.rows))
       => (/\ artifact' = artifact
           /\ trainer'.pc = "idle"
           /\ retrain'.propagated = FALSE
           /\ retrain'.outcome \in {"skipped", "failed"})]_vars

\* a retrain over rows that are all chosen = 0 failed, with the earlier model in place
C8_Witness ==
    /\ retrain.outcome = "failed"
    /\ retrain.n > 0
    /\ retrain.pos = 0
    /\ artifact = PriorModel

\* the row the sweep is at
SweepRowAt == sweep.rows[sweep.i]

\* the pair's last booking exists and now >= its start_time + interval days
IsDue(bk, s, interval, now) ==
    LET last_b == last_booking(bk, Primary, s)
    IN  Len(last_b) > 0 /\ now >= remind_time(last_b, interval)

\* C9: the sweep posts a notification for a pair only when the pair's setting is active
\* and the pair is due at the sweep's now.
C9_NotifiesOnlyDuePairs ==
    [][\A s \in Secondaries : Len(attempts'[s]) > Len(attempts[s])
          => /\ settings[s].active
             /\ IsDue(bookings, s, SweepRowAt.reminder_interval_days, sweep.now)]_vars

AtMostOneAttempt ==
    /\ \A s \in Secondaries : Len(attempts[s]) <= 1
    /\ \A s \in Secondaries : (sweep.pc = "idle" /\ Len(attempts[s]) = 1) =>
          /\ settings[s].last_reminder_sent # NullTime
          /\ settings[s].last_reminder_sent >= sweep.now

DuePairIsPostedOnce ==
    (/\ sweep.pc = "row"
     /\ sweep' # sweep
     /\ IsDue(bookings, SweepRowAt.secondary_user_id, SweepRowAt.reminder_interval_days,
              sweep.now))
    => (/\ Len(attempts'[SweepRowAt.secondary_user_id]) = 1
        /\ sweep'.pc = "refresh")

RefreshOnlyAfterPost ==
    \A s \in Secondaries :
        (settings'[s].last_reminder_sent # settings[s].last_reminder_sent)
        => (/\ sweep.pc = "refresh"
            /\ SweepRowAt.id = s
            /\ Len(attempts[s]) = 1
            /\ settings'[s].last_reminder_sent = clock)

RefreshSetsNow ==
    (sweep.pc = "refresh" /\ sweep' # sweep)
    => settings'[SweepRowAt.id].last_reminder_sent = clock

\* C10: a sweep posts at most one notification per pair; for a due pair it posts one
\* and goes on to the refresh whatever the delivery result; last_reminder_sent changes
\* only in that refresh, after the post, and becomes the current time.
C10_OneAttemptThenRefresh ==
    /\ []AtMostOneAttempt
    /\ [][DuePairIsPostedOnce /\ RefreshOnlyAfterPost /\ RefreshSetsNow]_vars

\* a sweep is over in which a due pair's delivery failed and its last_reminder_sent
\* was refreshed
C10_Witness ==
    /\ sweep.pc = "idle"
    /\ \E s \in Secondaries :
        /\ attempts[s] = <<FALSE>>
        /\ settings[s].last_reminder_sent >= sweep.now
        /\ IsDue(bookings, s, sweep.rows[1].reminder_interval_days, sweep.now)

\* C11: once a reminder has been posted for a pair and last_reminder_sent refreshed,
\* later sweeps post nothing for the pair while it has no new booking: a post is made
\* only for a row whose last_reminder_sent is null or older than the remind time of
\* the pair's last booking.
C11_NoRepeatWithoutNewBooking ==
    [][\A s \in Secondaries : Len(attempts'[s]) > Len(attempts[s])
          => \/ SweepRowAt.last_reminder_sent = NullTime
             \/ SweepRowAt.last_reminder_sent <
                   remind_time(last_booking(bookings, Primary, s),
                               SweepRowAt.reminder_interval_days)]_vars

\* some committed booking starts at the slot's time
SlotBooked(bk, id) == \E i \in 1 .. Len(bk) : bk[i].start_time = SlotTime(id)

\* committed state: a slot is flagged booked exactly when a booking made against it is
\* in the table
BothWritesOrNeither == \A id \in SlotIds : avail_slots[id] <=> SlotBooked(bookings, id)

\* a slot's flag changes only together with the insert of a booking at its time
FlipComesWithInsert ==
    \A id \in SlotIds : (avail_slots'[id] # avail_slots[id])
        => (/\ Len(bookings') = Len(bookings) + 1
            /\ bookings'[Len(bookings')].start_time = SlotTime(id))

\* a confirmation whose UPDATE raises leaves no booking and no flip
FailedConfirmLeavesNeither ==
    (txn.pc = "inserted" /\ txn'.pc = "idle")
    => (bookings' = bookings /\ avail_slots' = avail_slots)

\* the commit of a manual confirmation inserts its booking and flips no slot
ManualFlipsNoSlot ==
    (txn.pc = "updated" /\ txn'.pc = "label" /\ txn.slot_id = None)
    => (/\ Len(bookings') = Len(bookings) + 1
        /\ bookings'[Len(bookings')].start_time \in ManualTimes
        /\ avail_slots' = avail_slots)

\* C12: a confirmation against a slot applies the booking insert and the slot's
\* is_booked flip as one unit: in every reachable state, also when a confirmation fails
\* between the two statements or other requests run between them, either both writes
\* are visible or neither; a manual confirmation inserts the booking and flips no slot.
C12_InsertAndFlipAreAtomic ==
    /\ []BothWritesOrNeither
    /\ [][FlipComesWithInsert /\ FailedConfirmLeavesNeither /\ ManualFlipsNoSlot]_vars

\* a confirmation against slot 1 is committed, a later one failed at its UPDATE and was
\* rolled back, and a recommendation request was served from the committed tables
C12_Witness ==
    /\ avail_slots[1]
    /\ Len(bookings) = 1
    /\ conf.status = 500
    /\ conf.error = "slot_id"
    /\ txn.pc = "idle"
    /\ resp.status = 200

\* a step of /confirm_appointment whose label update was refused
IsLabelFailureStep ==
    /\ conf'.label = "failed"
    /\ <<conf', bookings'>> # <<conf, bookings>>

\* C13: a failure of the label update during a confirmation is swallowed and does not
\* undo the booking: the request is still acknowledged, the inserted booking and the
\* slot's is_booked flag are committed, and the log rows are as they were.
C13_LabelFailureIsSwallowed ==
    [][IsLabelFailureStep
       => (/\ conf'.status = 200
           /\ Len(bookings') = Len(bookings) + 1
           /\ SubSeq(bookings', 1, Len(bookings)) = bookings
           /\ (conf'.slot_id \in SlotIds =>
                 /\ avail_slots'[conf'.slot_id]
                 /\ bookings'[Len(bookings')].start_time = SlotTime(conf'.slot_id))
           /\ (conf'.slot_id = None => avail_slots' = avail_slots)
           /\ logs' = logs)]_vars

\* a confirmation of a candidate slot of a session was acknowledged with the label update
\* refused: the slot is booked and no row of the session is chosen
C13_Witness ==
    /\ conf.status = 200
    /\ conf.label = "failed"
    /\ conf.slot_id \in CandidatesOf(logs, conf.session_id)
    /\ avail_slots[conf.slot_id]
    /\ SlotBooked(bookings, conf.slot_id)
    /\ ChosenOf(logs, conf.session_id) = {}

\* a step in which one of the three handlers raised on the identifiers of its request:
\* an int() of /recommend_slots or /set_reminder, or, in /confirm_appointment, an int()
\* before the transaction or int(slot_id) inside it
IsRejectedStep ==
    \/ resp'.status = 500 /\ resp' # resp
    \/ setresp'.status = 500 /\ setresp' # setresp
    \/ /\ conf'.status = 500
       /\ conf'.error \in {"primary_user_id", "secondary_user_id", "slot_id"}
       /\ conf' # conf

\* C19: a request with malformed or missing identifiers (for /confirm_appointment also a
\* slot_id that is present but no identifier) has no side effect: bookings, availability
\* slots, reminder settings and recommendation logs are left exactly as they were.
C19_RejectedRequestHasNoSideEffect ==
    [][IsRejectedStep => UNCHANGED <<bookings, avail_slots, settings, logs, nextSession>>]_vars

\* each of the three handlers has rejected a request, the confirmation for its slot_id,
\* with a booking, a booked slot, a reminder setting and log rows in the store
C19_Witness ==
    /\ resp.status = 500
    /\ setresp.status = 500
    /\ conf.status = 500
    /\ conf.error = "slot_id"
    /\ conf.slot_id = Malformed
    /\ Len(bookings) > 0
    /\ \E id \in SlotIds : avail_slots[id]
    /\ \E s \in Secondaries : settings[s].present
    /\ Len(logs) > 0

\* the session ids a request can carry: none, a minted one, one never minted
AnySessionId == 0 .. nextSession

\* on the log as it is, a second call with the same arguments changes nothing more
SecondCallChangesNothing ==
    \A sid \in AnySessionId, slot \in SlotIds \cup {None} :
        update_chosen_slot(update_chosen_slot(logs, sid, slot), sid, slot)
            = update_chosen_slot(logs, sid, slot)

\* C14: mark_chosen is idempotent: for every session_id and slot_id a second call with
\* the same arguments leaves the log in the state the first call left it in; a
\* confirmation repeating the session_id and slot_id of the one before changes no row.
C14_MarkChosenIsIdempotent ==
    /\ []SecondCallChangesNothing
    /\ [][(IsConfirmStep /\ conf'.repeated) => logs' = logs]_vars

\* two confirmations in a row carried the same session and the same candidate slot of
\* it: that row is chosen
C14_Witness ==
    /\ conf.repeated
    /\ Len(bookings) = 2
    /\ \E i \in ChosenOf(logs, conf.session_id) : logs[i].slot_id = conf.slot_id
    /\ Cardinality(RowsOf(logs, conf.session_id)) >= 2

\* on the log as it is, a call with a null slot_id changes no row, whatever the session
NullSlotFlipsNothing ==
    \A sid \in AnySessionId : update_chosen_slot(logs, sid, None) = logs

\* C15: a manual confirmation never produces a positive label: mark_chosen with a null
\* slot_id flips no row of any session, and after a manual confirmation every row of
\* the session it carried has the chosen flag it had, 0 for a session not marked before.
C15_ManualConfirmationLabelsNothing ==
    /\ []NullSlotFlipsNothing
    /\ [][(IsConfirmStep /\ conf'.slot_id = None)
          => (/\ logs' = logs
              /\ (ChosenOf(logs, conf'.session_id) = {}
                    => \A i \in RowsOf(logs', conf'.session_id) : logs'[i].chosen = 0))]_vars

\* a manual confirmation carried a session that has rows: none of them is chosen
C15_Witness ==
    /\ conf.status = 200
    /\ conf.slot_id = None
    /\ conf.session_id # None
    /\ RowsOf(logs, conf.session_id) # {}
    /\ ChosenOf(logs, conf.session_id) = {}
    /\ Len(bookings) > 0
    /\ bookings[Len(bookings)].start_time \in ManualTimes

\* on the log as it is, a call without a session_id changes no row, whatever the slot
NullSessionChangesNothing ==
    \A slot \in SlotIds \cup {None} :
        LET after == update_chosen_slot(logs, None, slot)
        IN  /\ Len(after) = Len(logs)
            /\ \A i \in 1 .. Len(logs) : after[i].chosen = logs[i].chosen
            /\ after = logs

\* C16: mark_chosen with a null or absent session_id is a no-op, the number of log rows
\* and every row's chosen flag are unchanged, and a confirmation without a session_id
\* changes no log row.
C16_NoSessionIsNoOp ==
    /\ []NullSessionChangesNothing
    /\ [][(IsConfirmStep /\ conf'.session_id = None) => logs' = logs]_vars

\* a confirmation without session_id booked a slot that some session has as a
\* candidate, and no row of the log is chosen
C16_Witness ==
    /\ conf.status = 200
    /\ conf.session_id = None
    /\ conf.slot_id # None
    /\ avail_slots[conf.slot_id]
    /\ \E sid \in SessionIds : conf.slot_id \in CandidatesOf(logs, sid)
    /\ \A i \in 1 .. Len(logs) : logs[i].chosen = 0

\* what the claim promises of the call log_session(p, s, cand) made on the log lg when
\* the ids 1 .. minted - 1 have been handed out
LogSessionContract(lg, minted, p, s, cand) ==
    LET lr == log_recommendation_session(lg, minted, p, s, cand)
        new == RowsOf(lr.logs, lr.session_id)
    IN  /\ ~ lr.raised
        /\ lr.session_id # None
        /\ lr.session_id \notin 1 .. (minted - 1)
        /\ RowsOf(lg, lr.session_id) = {}
        /\ Len(lr.logs) = Len(lg) + Len(cand)
        /\ SubSeq(lr.logs, 1, Len(lg)) = lg
        /\ Cardinality(new) = Len(cand)
        /\ \A i \in new : lr.logs[i].chosen = 0

\* the call made by a /recommend_slots request
InteractiveLogSession ==
    (nextSession' # nextSession /\ resp' # resp)
    => \A s \in Secondaries :
         \A r \in recommend_top_k(bookings, avail_slots, artifact, clock, Primary, s, TopK) :
            LogSessionContract(logs, nextSession, Primary, s, r.scored)

\* the call made by the reminder job for the slot it was given
ReminderLogSession ==
    \A s \in Secondaries :
        (Len(attempts'[s]) > Len(attempts[s]) /\ Len(notif'.slots) > 0)
        => LogSessionContract(logs, nextSession, Primary, s, reminder_candidates(notif'.slots))

\* C17: every call of log_session returns a session_id that differs from every id
\* minted before; over a non-empty candidate set it writes exactly one row per
\* candidate, each with chosen = 0; over an empty candidate set it writes no row and
\* still returns a fresh id.
C17_LogSessionMintsAndWrites ==
    [][InteractiveLogSession /\ ReminderLogSession]_vars

\* the columns of a log row other than chosen
Unflagged(row) == [row EXCEPT !.chosen = 0]

\* no row is deleted, and no row's session_id, slot_id or feature columns change
RowsAreKept ==
    /\ Len(logs') >= Len(logs)
    /\ \A i \in 1 .. Len(logs) : Unflagged(logs'[i]) = Unflagged(logs[i])

\* no chosen flag goes from 1 back to 0
ChosenIsNeverReset ==
    \A i \in 1 .. Len(logs) : logs[i].chosen = 1 => logs'[i].chosen = 1

\* a confirmation changes rows of the session it carries only
OtherSessionsUntouched ==
    IsConfirmStep
    => \A i \in 1 .. Len(logs) : logs[i].session_id # conf'.session_id => logs'[i] = logs[i]

\* C20: the recommendation log is append-only apart from the chosen flag: no operation
\* deletes a row or changes its session_id, slot_id or feature columns, none resets
\* chosen from 1 to 0, and mark_chosen(session_id, slot_id) leaves every row of every
\* other session unchanged.
C20_LogIsAppendOnly ==
    [][RowsAreKept /\ ChosenIsNeverReset /\ OtherSessionsUntouched]_vars

\* the last confirmation marked a second slot of a session that had a chosen row
\* already, with the rows of another session in the log, none of them chosen
C20_Witness ==
    /\ conf.status = 200
    /\ conf.session_id # None
    /\ Cardinality(ChosenOf(logs, conf.session_id)) = 2
    /\ \E sid \in SessionIds \ {conf.session_id} :
          RowsOf(logs, sid) # {} /\ ChosenOf(logs, sid) = {}

\* the rows of a history that are not cancelled, and the newest of them by start_time
Live(h) == {i \in 1 .. Len(h) : h[i].status # "cancelled"}
NewestLive(h) == CHOOSE i \in Live(h) : \A j \in Live(h) : h[i].start_time >= h[j].start_time

\* C18: for a history that is empty or holds cancelled bookings only, every candidate
\* row gets the defaults same_hour = 0, same_dow = 0, hour_diff = 999, days_since_last =
\* 999, recent_count = 0; otherwise the derived fields of every row are computed
\* against the newest history row that is not cancelled.
C18_FeaturesUseNewestLiveBooking ==
    built.called =>
        /\ Len(built.features) = Len(built.candidate_slots)
        /\ \A k \in 1 .. Len(built.features) :
            LET f == built.features[k]
                slot_ts == built.candidate_slots[k].slot_time
                h == built.history
            IN  IF Live(h) = {}
                THEN /\ f.same_hour = 0
                     /\ f.same_dow = 0
                     /\ f.hour_diff = 999
                     /\ f.days_since_last = 999
                     /\ f.recent_count = 0
                ELSE LET ref == h[NewestLive(h)].start_time
                     IN  /\ f.same_hour = (IF Hour(ref) = Hour(slot_ts) THEN 1 ELSE 0)
                         /\ f.same_dow = (IF DayOfWeek(ref) = DayOfWeek(slot_ts) THEN 1 ELSE 0)
                         /\ f.hour_diff = Abs(slot_ts - ref)
                         /\ f.days_since_last = Date(slot_ts) - Date(ref)
                         /\ f.recent_count =
                              Cardinality({i \in Live(h) : Hour(h[i].start_time) = Hour(slot_ts)})

\* features were built over a history whose newest row is cancelled and whose older row
\* is not: the first candidate's fields are those against the older row
C18_Witness ==
    /\ built.called
    /\ Len(built.history) = 2
    /\ built.history[1].status = "cancelled"
    /\ built.history[2].status = "completed"
    /\ built.history[1].start_time > built.history[2].start_time
    /\ Len(built.features) = 2
    /\ built.features[1].hour_diff = Abs(built.candidate_slots[1].slot_time
                                         - built.history[2].start_time)
    /\ built.features[1].hour_diff # Abs(built.candidate_slots[1].slot_time
                                         - built.history[1].start_time)

====
